---- MODULE Spec2Model ----
(***************************************************************************)
(* Model of sistema_qualidade_industrial.py: the quality inspection of a   *)
(* part (ControleQualidade), the storage boxes (Caixa) and the production  *)
(* ledger (SistemaProducao) with its operations cadastrar_peca and         *)
(* remover_peca.                                                           *)
(*                                                                         *)
(* Representation.                                                         *)
(*  - A Peca object is a record; todas_pecas holds the records.  The other *)
(*    lists of the program hold references to the same objects; a          *)
(*    reference to a Peca is modelled by the id of the object.             *)
(*  - A Caixa object is a record; caixas holds the records.  The reference *)
(*    caixa_atual is modelled by the position of the object in caixas      *)
(*    (None when the reference is None).                                   *)
(*  - A text is a sequence of one-character strings, so that str.lower()   *)
(*    is computed character by character.                                  *)
(*  - A Python float is a record [nan, val]: either NaN or an integral     *)
(*    value.  The comparisons are those of Python floats: every ordered    *)
(*    comparison with NaN is false.                                        *)
(*  - A CSV file is the list of its records as csv.reader yields them,    *)
(*    each a list of texts (a blank line is the empty list).  The loop of  *)
(*    processar_lote_csv takes one step per record that DictReader yields; *)
(*    lote holds the local variables of the call.                          *)
(***************************************************************************)
EXTENDS Integers, Sequences, FiniteSets, TLC

VARIABLES
    todas_pecas,       \* list of Peca records, in registration order
    pecas_aprovadas,   \* list of references (ids) to approved parts
    pecas_reprovadas,  \* list of references (ids) to rejected parts
    caixas,            \* list of Caixa records, in creation order
    caixa_atual,       \* position in caixas of the current box, or None
    proximo_id,        \* next id to assign
    ret,               \* what the last call returned (or raised)
    historico_ids,     \* the id given to the Peca built by each call of cadastrar_peca
    lote               \* the call of processar_lote_csv in progress (or the last one)

vars == <<todas_pecas, pecas_aprovadas, pecas_reprovadas, caixas, caixa_atual,
          proximo_id, ret, historico_ids, lote>>

\* The collections and references of the ledger (everything but the last return value).
ledger == <<todas_pecas, pecas_aprovadas, pecas_reprovadas, caixas, caixa_atual,
            proximo_id>>

-----------------------------------------------------------------------------
(* Bounds of the model *)

\* Spec: number of calls of cadastrar_peca
MaxPecas == 6
\* SpecInspecao: number of calls of cadastrar_peca
MaxPecasInspecao == 1
\* SpecCaixas: number of calls of cadastrar_peca
MaxPecasCaixas == 12
\* SpecCaixas: remover_peca is called with ids 1..MaxIdRemocao
MaxIdRemocao == 11
\* SpecNumeracao: number of calls of cadastrar_peca
MaxPecasNumeracao == 21
\* SpecNumeracao: remover_peca is called with ids 1..MaxIdRemocaoNumeracao
MaxIdRemocaoNumeracao == 10
\* SpecPercentual: _calcular_percentual is called with parte in 0..MaxParte
MaxParte == 10
\* SpecPercentual: _calcular_percentual is called with total in 0..MaxTotal
MaxTotal == 10
\* SpecLote: number of records after the header of a CSV file
MaxLinhas == 2
\* SpecLote: number of calls of cadastrar_peca before the batch
MaxPecasAntesLote == 1

-----------------------------------------------------------------------------
(* Python values *)

None == 0

NaN == [nan |-> TRUE, val |-> 0]

Float(n) == [nan |-> FALSE, val |-> n]

\* x < n and x > n for a float x and an int n
FloatLt(x, n) == ~x.nan /\ x.val < n

FloatGt(x, n) == ~x.nan /\ x.val > n

Maiusculas == <<"A","B","C","D","E","F","G","H","I","J","K","L","M",
                "N","O","P","Q","R","S","T","U","V","W","X","Y","Z">>

Minusculas == <<"a","b","c","d","e","f","g","h","i","j","k","l","m",
                "n","o","p","q","r","s","t","u","v","w","x","y","z">>

LowerChar(c) ==
    IF \E i \in DOMAIN Maiusculas : Maiusculas[i] = c
    THEN Minusculas[CHOOSE i \in DOMAIN Maiusculas : Maiusculas[i] = c]
    ELSE c

\* str.lower()
Lower(s) == [i \in DOMAIN s |-> LowerChar(s[i])]

\* x in lista
Contem(lista, x) == \E i \in DOMAIN lista : lista[i] = x

\* position of the first element equal to x (the list contains x)
IndexOf(lista, x) ==
    CHOOSE i \in DOMAIN lista :
        /\ lista[i] = x
        /\ \A j \in 1..(i - 1) : lista[j] # x

RemoveAt(lista, i) ==
    [j \in 1..(Len(lista) - 1) |-> IF j < i THEN lista[j] ELSE lista[j + 1]]

\* mutant: the last element goes (list.pop()), whatever x is
ListRemoveUltimo(lista, x) == RemoveAt(lista, Len(lista))

\* list.remove(x) on a list that contains x: the first occurrence goes
ListRemove(lista, x) == RemoveAt(lista, IndexOf(lista, x))

Espacos == {" "}

\* str.strip()
Strip(s) ==
    LET cheios == {i \in DOMAIN s : s[i] \notin Espacos}
    IN  IF cheios = {} THEN <<>>
        ELSE SubSeq(s, CHOOSE i \in cheios : \A j \in cheios : i <= j,
                       CHOOSE i \in cheios : \A j \in cheios : i >= j)

Digitos == <<"0","1","2","3","4","5","6","7","8","9">>

ValorDigito(c) == (CHOOSE i \in DOMAIN Digitos : Digitos[i] = c) - 1

RECURSIVE ValorDecimal(_)
ValorDecimal(s) ==
    IF s = <<>> THEN 0
    ELSE ValorDecimal(SubSeq(s, 1, Len(s) - 1)) * 10 + ValorDigito(s[Len(s)])

\* float(s) for a text s of letters, digits, spaces and a sign: the value, or
\* ok = FALSE when float raises ValueError
ParseFloat(s) ==
    LET t == Strip(s)
        sinal == IF t # <<>> /\ t[1] = "-" THEN 0 - 1 ELSE 1
        corpo == IF t # <<>> /\ t[1] \in {"+", "-"} THEN Tail(t) ELSE t
    IN  IF corpo # <<>> /\ \A i \in DOMAIN corpo : Contem(Digitos, corpo[i])
        THEN [ok |-> TRUE, valor |-> Float(sinal * ValorDecimal(corpo))]
        ELSE IF Lower(corpo) = <<"n","a","n">>
        THEN [ok |-> TRUE, valor |-> NaN]
        ELSE [ok |-> FALSE, valor |-> NaN]

-----------------------------------------------------------------------------
(* class Peca *)

Peca(id_peca, peso, cor, comprimento) ==
    [id                 |-> id_peca,
     peso               |-> peso,
     cor                |-> Lower(cor),
     comprimento        |-> comprimento,
     aprovada           |-> FALSE,
     motivos_reprovacao |-> <<>>,
     caixa              |-> None]

-----------------------------------------------------------------------------
(* class ControleQualidade *)

PESO_MIN == 95

PESO_MAX == 105

CORES_VALIDAS == << <<"a","z","u","l">>, <<"v","e","r","d","e">> >>

COMPRIMENTO_MIN == 10

COMPRIMENTO_MAX == 20

\* A reason is the text of the f-string: its leading words and the value it formats.
MotivoPeso(peca) == [categoria |-> "Peso fora do padrão", valor |-> peca.peso]

MotivoCor(peca) == [categoria |-> "Cor inválida", valor |-> peca.cor]

MotivoComprimento(peca) ==
    [categoria |-> "Comprimento fora do padrão", valor |-> peca.comprimento]

PesoForaDoPadrao(peca) ==
    FloatLt(peca.peso, PESO_MIN) \/ FloatGt(peca.peso, PESO_MAX)

CorInvalida(peca) == ~Contem(CORES_VALIDAS, peca.cor)

ComprimentoForaDoPadrao(peca) ==
    FloatLt(peca.comprimento, COMPRIMENTO_MIN) \/ FloatGt(peca.comprimento, COMPRIMENTO_MAX)

\* the list motivos built by inspecionar_peca
Motivos(peca) ==
    (IF PesoForaDoPadrao(peca) THEN <<MotivoPeso(peca)>> ELSE <<>>)
    \o (IF CorInvalida(peca) THEN <<MotivoCor(peca)>> ELSE <<>>)
    \o (IF ComprimentoForaDoPadrao(peca) THEN <<MotivoComprimento(peca)>> ELSE <<>>)

\* mutant: the reasons found are not stored in the part
InspecionarPecaSemMotivos(peca) ==
    IF Len(Motivos(peca)) = 0
    THEN [peca |-> [peca EXCEPT !.aprovada = TRUE], resultado |-> TRUE]
    ELSE [peca |-> [peca EXCEPT !.aprovada = FALSE], resultado |-> FALSE]

\* inspecionar_peca: the part as the call leaves it, and the value returned
InspecionarPeca(peca) ==
    LET motivos == Motivos(peca) IN
    IF Len(motivos) = 0
    THEN [peca |-> [peca EXCEPT !.aprovada = TRUE], resultado |-> TRUE]
    ELSE [peca |-> [peca EXCEPT !.aprovada = FALSE, !.motivos_reprovacao = motivos],
          resultado |-> FALSE]

-----------------------------------------------------------------------------
(* class Caixa *)

CAPACIDADE_MAXIMA == 10

Caixa(numero) == [numero |-> numero, pecas |-> <<>>, fechada |-> FALSE]

Fechar(caixa) == [caixa EXCEPT !.fechada = TRUE]

\* mutant: a box counts as full only beyond its capacity
EstaCheiaAlemDaCapacidade(caixa) == Len(caixa.pecas) > CAPACIDADE_MAXIMA

EstaCheia(caixa) == Len(caixa.pecas) >= CAPACIDADE_MAXIMA

EstaVazia(caixa) == Len(caixa.pecas) = 0

\* adicionar_peca: the box and the part as the call leaves them, and the value returned
AdicionarPeca(caixa, peca) ==
    IF caixa.fechada
    THEN [caixa |-> caixa, peca |-> peca, resultado |-> FALSE]
    ELSE IF Len(caixa.pecas) < CAPACIDADE_MAXIMA
    THEN LET com_peca == [caixa EXCEPT !.pecas = Append(caixa.pecas, peca.id)] IN
         [caixa     |-> IF Len(com_peca.pecas) = CAPACIDADE_MAXIMA
                        THEN Fechar(com_peca) ELSE com_peca,
          peca      |-> [peca EXCEPT !.caixa = caixa.numero],
          resultado |-> TRUE]
    ELSE [caixa |-> caixa, peca |-> peca, resultado |-> FALSE]

\* mutant: the box gives the part up and stays closed
CaixaRemoverPecaSemReabrir(caixa, ref) ==
    IF Contem(caixa.pecas, ref)
    THEN [caixa     |-> [caixa EXCEPT !.pecas = ListRemove(caixa.pecas, ref)],
          resultado |-> TRUE]
    ELSE [caixa |-> caixa, resultado |-> FALSE]

\* Caixa.remover_peca: the box as the call leaves it, and the value returned
\* (the part, whose caixa becomes None, is dropped by the only caller)
CaixaRemoverPeca(caixa, ref) ==
    IF Contem(caixa.pecas, ref)
    THEN [caixa     |-> [caixa EXCEPT !.pecas = ListRemove(caixa.pecas, ref),
                                      !.fechada = IF caixa.fechada THEN FALSE
                                                  ELSE caixa.fechada],
          resultado |-> TRUE]
    ELSE [caixa |-> caixa, resultado |-> FALSE]

-----------------------------------------------------------------------------
(* class SistemaProducao *)

\* no call of processar_lote_csv yet
LoteInicial ==
    [ativo |-> FALSE,
     arquivo |-> [existe |-> FALSE, legivel |-> FALSE, registros |-> <<>>],
     lidos |-> 0, linha_num |-> 0, total_processadas |-> 0, aprovadas |-> 0,
     reprovadas |-> 0, erros |-> <<>>, cadastros_antes |-> 0]

Init ==
    /\ todas_pecas = <<>>
    /\ pecas_aprovadas = <<>>
    /\ pecas_reprovadas = <<>>
    /\ caixas = <<>>
    /\ caixa_atual = None
    /\ proximo_id = 1
    /\ ret = [op |-> "__init__"]
    /\ historico_ids = <<>>
    /\ lote = LoteInicial

\* the number given to a box created when the box list is cxs
NumeroNovaCaixa(cxs) == Len(cxs) + 1

\* the test that makes _armazenar_peca create a box
PrecisaNovaCaixa(cxs, atual) == atual = None \/ EstaCheia(cxs[atual])

\* mutant: the part goes to the first box that has room, whichever box is current
ArmazenarPecaNaPrimeiraComVaga(cxs, atual, peca) ==
    IF \E k \in DOMAIN cxs : ~EstaCheia(cxs[k])
    THEN LET k == CHOOSE i \in DOMAIN cxs :
                     /\ ~EstaCheia(cxs[i])
                     /\ \A j \in 1..(i - 1) : EstaCheia(cxs[j])
             adicao == AdicionarPeca(cxs[k], peca)
         IN  [caixas |-> [cxs EXCEPT ![k] = adicao.caixa],
              caixa_atual |-> atual,
              peca |-> adicao.peca]
    ELSE LET cxs1 == Append(cxs, Caixa(Len(cxs) + 1))
             adicao == AdicionarPeca(cxs1[Len(cxs1)], peca)
         IN  [caixas |-> [cxs1 EXCEPT ![Len(cxs1)] = adicao.caixa],
              caixa_atual |-> Len(cxs1),
              peca |-> adicao.peca]

\* _armazenar_peca: the box list, the current box and the part as the call leaves them
ArmazenarPeca(cxs, atual, peca) ==
    LET criar   == PrecisaNovaCaixa(cxs, atual)
        cxs1    == IF criar THEN Append(cxs, Caixa(NumeroNovaCaixa(cxs))) ELSE cxs
        atual1  == IF criar THEN Len(cxs1) ELSE atual
        adicao  == AdicionarPeca(cxs1[atual1], peca)
    IN  [caixas      |-> [cxs1 EXCEPT ![atual1] = adicao.caixa],
         caixa_atual |-> atual1,
         peca        |-> adicao.peca]

\* mutant: the id is taken from the number of parts held, so that a removal frees ids
IdNovaPecaPorContagem == Len(todas_pecas) + 1

\* the id cadastrar_peca gives the part it builds, and the counter after the call
IdNovaPeca == proximo_id

ProximoIdApos == proximo_id + 1

\* cadastrar_peca(peso, cor, comprimento)
CadastrarPeca(peso, cor, comprimento) ==
    LET nova      == Peca(IdNovaPeca, peso, cor, comprimento)
        inspecao  == InspecionarPeca(nova)
    IN  /\ proximo_id' = ProximoIdApos
        /\ historico_ids' = Append(historico_ids, nova.id)
        /\ IF inspecao.resultado
           THEN LET arm == ArmazenarPeca(caixas, caixa_atual, inspecao.peca) IN
                /\ todas_pecas' = Append(todas_pecas, arm.peca)
                /\ pecas_aprovadas' = Append(pecas_aprovadas, nova.id)
                /\ caixas' = arm.caixas
                /\ caixa_atual' = arm.caixa_atual
                /\ ret' = [op |-> "cadastrar_peca", peca |-> nova.id,
                           aprovada |-> TRUE, motivos |-> None]
                /\ UNCHANGED pecas_reprovadas
           ELSE /\ todas_pecas' = Append(todas_pecas, inspecao.peca)
                /\ pecas_reprovadas' = Append(pecas_reprovadas, nova.id)
                /\ ret' = [op |-> "cadastrar_peca", peca |-> nova.id,
                           aprovada |-> FALSE,
                           motivos |-> inspecao.peca.motivos_reprovacao]
                /\ UNCHANGED <<pecas_aprovadas, caixas, caixa_atual>>

\* mutant: the id is taken for the position of the part in todas_pecas
BuscarPecaPorPosicao(id_peca) ==
    IF id_peca \in DOMAIN todas_pecas THEN id_peca ELSE None

\* the search loop of remover_peca and of buscar_peca: the position in
\* todas_pecas of the first part whose id is id_peca, or None
BuscarPeca(id_peca) ==
    IF \E i \in DOMAIN todas_pecas : todas_pecas[i].id = id_peca
    THEN CHOOSE i \in DOMAIN todas_pecas :
            /\ todas_pecas[i].id = id_peca
            /\ \A j \in 1..(i - 1) : todas_pecas[j].id # id_peca
    ELSE None

\* the position of the current box once the box at position k has left the list
\* (the reference itself does not change)
PosicaoSemCaixa(atual, k) == IF atual > k THEN atual - 1 ELSE atual

\* mutant: the empty box is dropped and caixa_atual is left as it was
AposRemoverDaCaixaSemAtualizar(cxs, atual, k, caixa) ==
    IF EstaVazia(caixa)
    THEN [caixas |-> RemoveAt(cxs, k), caixa_atual |-> atual]
    ELSE [caixas |-> [cxs EXCEPT ![k] = caixa], caixa_atual |-> atual]

\* what remover_peca does once a box has given the part up: drop the box if it is empty
AposRemoverDaCaixa(cxs, atual, k, caixa) ==
    IF EstaVazia(caixa)
    THEN LET restantes == RemoveAt(cxs, k) IN
         [caixas      |-> restantes,
          caixa_atual |-> IF atual = k
                          THEN (IF Len(restantes) > 0 THEN Len(restantes) ELSE None)
                          ELSE PosicaoSemCaixa(atual, k)]
    ELSE [caixas |-> [cxs EXCEPT ![k] = caixa], caixa_atual |-> atual]

\* the loop of remover_peca over the boxes: the first box that holds the part gives it up
RemoverDasCaixas(cxs, atual, ref) ==
    IF \E k \in DOMAIN cxs : Contem(cxs[k].pecas, ref)
    THEN LET k == CHOOSE i \in DOMAIN cxs :
                     /\ Contem(cxs[i].pecas, ref)
                     /\ \A j \in 1..(i - 1) : ~Contem(cxs[j].pecas, ref)
         IN  AposRemoverDaCaixa(cxs, atual, k, CaixaRemoverPeca(cxs[k], ref).caixa)
    ELSE [caixas |-> cxs, caixa_atual |-> atual]

RetornoRemover(sucesso, mensagem) ==
    [op |-> "remover_peca", sucesso |-> sucesso, mensagem |-> mensagem, excecao |-> FALSE]

\* list.remove(x) raised ValueError: x not in list
ExcecaoRemover ==
    [op |-> "remover_peca", sucesso |-> FALSE, mensagem |-> "ValueError", excecao |-> TRUE]

\* remover_peca(id_peca)
RemoverPeca(id_peca) ==
    LET pos == BuscarPeca(id_peca) IN
    /\ UNCHANGED <<proximo_id, historico_ids>>
    /\ IF pos = None
       THEN /\ ret' = RetornoRemover(FALSE, "Peça não encontrada")
            /\ UNCHANGED <<todas_pecas, pecas_aprovadas, pecas_reprovadas,
                           caixas, caixa_atual>>
       ELSE LET peca_encontrada == todas_pecas[pos] IN
            /\ todas_pecas' = RemoveAt(todas_pecas, pos)
            /\ IF peca_encontrada.aprovada
               THEN IF Contem(pecas_aprovadas, peca_encontrada.id)
                    THEN LET rem == RemoverDasCaixas(caixas, caixa_atual,
                                                     peca_encontrada.id) IN
                         /\ pecas_aprovadas' = ListRemove(pecas_aprovadas,
                                                          peca_encontrada.id)
                         /\ caixas' = rem.caixas
                         /\ caixa_atual' = rem.caixa_atual
                         /\ ret' = RetornoRemover(TRUE, "Peça removida com sucesso")
                         /\ UNCHANGED pecas_reprovadas
                    ELSE /\ ret' = ExcecaoRemover
                         /\ UNCHANGED <<pecas_aprovadas, pecas_reprovadas,
                                        caixas, caixa_atual>>
               ELSE IF Contem(pecas_reprovadas, peca_encontrada.id)
                    THEN /\ pecas_reprovadas' = ListRemove(pecas_reprovadas,
                                                           peca_encontrada.id)
                         /\ ret' = RetornoRemover(TRUE, "Peça removida com sucesso")
                         /\ UNCHANGED <<pecas_aprovadas, caixas, caixa_atual>>
                    ELSE /\ ret' = ExcecaoRemover
                         /\ UNCHANGED <<pecas_aprovadas, pecas_reprovadas,
                                        caixas, caixa_atual>>

\* mutant: the digits beyond the first decimal are cut off
RoundTruncado(n, d) == n \div d

\* round(n / d): the integer nearest to n / d, the even one when two are as near
\* (n >= 0, d > 0)
Round(n, d) ==
    LET q == n \div d
        r == n % d
    IN  IF 2 * r > d \/ (2 * r = d /\ q % 2 = 1) THEN q + 1 ELSE q

\* _calcular_percentual(parte, total): the value returned, in tenths
\* (round(x, 1) is a number of tenths: 30.0 is 300)
Percentual(parte, total) ==
    IF total = 0 THEN 0 ELSE Round(parte * 100 * 10, total)

\* a call of _calcular_percentual(parte, total)
CalcularPercentual(parte, total) ==
    /\ ret' = [op |-> "_calcular_percentual", parte |-> parte, total |-> total,
               decimos |-> Percentual(parte, total)]
    /\ UNCHANGED <<todas_pecas, pecas_aprovadas, pecas_reprovadas, caixas,
                   caixa_atual, proximo_id, historico_ids>>

\* the keys the loop reads from each row
ChavePeso == <<"p","e","s","o">>

ChaveCor == <<"c","o","r">>

ChaveComprimento == <<"c","o","m","p","r","i","m","e","n","t","o">>

\* colunas_necessarias
ColunasNecessarias == {ChavePeso, ChaveCor, ChaveComprimento}

\* colunas_arquivo
ColunasArquivo(fieldnames) == {Strip(Lower(fieldnames[i])) : i \in DOMAIN fieldnames}

\* mutant: one of the necessary columns is enough
AlgumaColunaNecessaria(fieldnames) ==
    ColunasNecessarias \cap ColunasArquivo(fieldnames) # {}

\* colunas_necessarias.issubset(colunas_arquivo)
ColunasSuficientes(fieldnames) == ColunasNecessarias \subseteq ColunasArquivo(fieldnames)

\* linha[chave] for the dict DictReader builds from a record: the cell under the
\* last column named chave, None when the record is shorter than that column,
\* KeyError when no column has that name
Campo(fieldnames, linha, chave) ==
    LET posicoes == {i \in DOMAIN fieldnames : fieldnames[i] = chave}
        ultima == CHOOSE i \in posicoes : \A j \in posicoes : i >= j
    IN  IF posicoes = {} THEN [estado |-> "KeyError", texto |-> <<>>]
        ELSE IF ultima > Len(linha) THEN [estado |-> "None", texto |-> <<>>]
        ELSE [estado |-> "str", texto |-> linha[ultima]]

\* the exception cell.strip() raises, "" when it raises none
ExcecaoDoCampo(campo) ==
    IF campo.estado = "KeyError" THEN "KeyError"
    ELSE IF campo.estado = "None" THEN "AttributeError"
    ELSE ""

\* the three assignments that read a row: the values, or the first exception
ExtrairDados(fieldnames, linha) ==
    LET campoPeso == Campo(fieldnames, linha, ChavePeso)
        campoCor == Campo(fieldnames, linha, ChaveCor)
        campoComprimento == Campo(fieldnames, linha, ChaveComprimento)
        peso == ParseFloat(Strip(campoPeso.texto))
        comprimento == ParseFloat(Strip(campoComprimento.texto))
        excecao ==
            IF ExcecaoDoCampo(campoPeso) # "" THEN ExcecaoDoCampo(campoPeso)
            ELSE IF ~peso.ok THEN "ValueError"
            ELSE IF ExcecaoDoCampo(campoCor) # "" THEN ExcecaoDoCampo(campoCor)
            ELSE IF ExcecaoDoCampo(campoComprimento) # ""
                 THEN ExcecaoDoCampo(campoComprimento)
            ELSE IF ~comprimento.ok THEN "ValueError"
            ELSE ""
    IN  [excecao |-> excecao, peso |-> peso.valor, cor |-> Strip(campoCor.texto),
         comprimento |-> comprimento.valor]

\* the message of the except clause that catches the exception
MensagemDaExcecao(excecao) ==
    IF excecao = "ValueError" THEN "Dados invalidos"
    ELSE IF excecao = "KeyError" THEN "Coluna ausente"
    ELSE "Erro inesperado"

\* a message of erros: the row it names (None for a message about the file)
\* and its text up to the detail of the exception
ErroDeLinha(linha_num, mensagem) == [linha |-> linha_num, mensagem |-> mensagem]

ErroDeArquivo(mensagem) == [linha |-> None, mensagem |-> mensagem]

\* the first value of enumerate(leitor, start=2)
LinhaInicial == 2

\* the local variables when the loop starts
LoteAberto(arquivo) ==
    [ativo |-> TRUE, arquivo |-> arquivo, lidos |-> 1, linha_num |-> LinhaInicial,
     total_processadas |-> 0, aprovadas |-> 0, reprovadas |-> 0, erros |-> <<>>,
     cadastros_antes |-> Len(historico_ids)]

\* a call that returned before the loop
LoteRecusado(arquivo) ==
    [ativo |-> FALSE, arquivo |-> arquivo, lidos |-> 0, linha_num |-> 0,
     total_processadas |-> 0, aprovadas |-> 0, reprovadas |-> 0, erros |-> <<>>,
     cadastros_antes |-> Len(historico_ids)]

RetornoLote(total_processadas, aprovadas, reprovadas, erros) ==
    [op |-> "processar_lote_csv", total_processadas |-> total_processadas,
     aprovadas |-> aprovadas, reprovadas |-> reprovadas, erros |-> erros]

\* processar_lote_csv(caminho_arquivo), up to the loop over the rows
ProcessarLoteCsv(arquivo) ==
    /\ ~lote.ativo
    /\ UNCHANGED <<ledger, historico_ids>>
    /\ IF ~arquivo.existe
       THEN /\ ret' = RetornoLote(0, 0, 0, <<ErroDeArquivo("Arquivo nao encontrado")>>)
            /\ lote' = LoteRecusado(arquivo)
       ELSE IF ~arquivo.legivel \/ arquivo.registros = <<>>
       THEN /\ ret' = RetornoLote(0, 0, 0, <<ErroDeArquivo("Erro ao ler arquivo")>>)
            /\ lote' = LoteRecusado(arquivo)
       ELSE IF ~ColunasSuficientes(arquivo.registros[1])
       THEN /\ ret' = RetornoLote(0, 0, 0,
                          <<ErroDeArquivo("Arquivo CSV deve conter as colunas")>>)
            /\ lote' = LoteRecusado(arquivo)
       ELSE /\ lote' = LoteAberto(arquivo)
            /\ UNCHANGED ret

\* the position of the record DictReader yields next (it skips the empty
\* records), None at the end of the file
ProximoRegistro(l) ==
    LET restantes == {i \in (l.lidos + 1)..Len(l.arquivo.registros) :
                         l.arquivo.registros[i] # <<>>}
    IN  IF restantes = {} THEN None
        ELSE CHOOSE i \in restantes : \A j \in restantes : i <= j

\* mutant: the total counts the approved parts only
AposCadastroSoAprovadas(l, eh_aprovada) ==
    IF eh_aprovada
    THEN [l EXCEPT !.total_processadas = @ + 1, !.aprovadas = @ + 1]
    ELSE [l EXCEPT !.reprovadas = @ + 1]

\* the counters after cadastrar_peca returned
AposCadastro(l, eh_aprovada) ==
    IF eh_aprovada
    THEN [l EXCEPT !.total_processadas = @ + 1, !.aprovadas = @ + 1]
    ELSE [l EXCEPT !.total_processadas = @ + 1, !.reprovadas = @ + 1]

\* mutant: the message names the position of the row among the data rows
AposExcecaoSemCabecalho(l, excecao) ==
    [l EXCEPT !.erros = Append(@, ErroDeLinha(l.linha_num - 1, MensagemDaExcecao(excecao)))]

\* the list of errors after an except clause caught the exception
AposExcecao(l, excecao) ==
    [l EXCEPT !.erros = Append(@, ErroDeLinha(l.linha_num, MensagemDaExcecao(excecao)))]

\* the loop takes the record at position i: the next one has the next number
Avancar(l, i) == [l EXCEPT !.lidos = i, !.linha_num = @ + 1]

\* one iteration of the loop over the rows
ProcessarLinha ==
    /\ lote.ativo
    /\ ProximoRegistro(lote) # None
    /\ LET i == ProximoRegistro(lote)
           dados == ExtrairDados(lote.arquivo.registros[1], lote.arquivo.registros[i])
       IN  IF dados.excecao = ""
           THEN /\ CadastrarPeca(dados.peso, dados.cor, dados.comprimento)
                /\ lote' = Avancar(AposCadastro(lote, ret'.aprovada), i)
           ELSE /\ lote' = Avancar(AposExcecao(lote, dados.excecao), i)
                /\ UNCHANGED <<ledger, historico_ids, ret>>

\* the end of the loop and the return
RetornarLote ==
    /\ lote.ativo
    /\ ProximoRegistro(lote) = None
    /\ ret' = RetornoLote(lote.total_processadas, lote.aprovadas, lote.reprovadas,
                          lote.erros)
    /\ lote' = [lote EXCEPT !.ativo = FALSE, !.lidos = Len(lote.arquivo.registros)]
    /\ UNCHANGED <<ledger, historico_ids>>

-----------------------------------------------------------------------------
(* Inputs *)

Azul == <<"a","z","u","l">>

AZUL == <<"A","Z","U","L">>

Verde == <<"V","e","r","d","e">>

Roxo == <<"r","o","x","o">>

\* Spec: the parts registered (approved; rejected for one reason; rejected for three)
Entradas ==
    { <<Float(100), AZUL, Float(15)>>,
      <<Float(106), Verde, Float(20)>>,
      <<Float(94), Roxo, Float(21)>> }

\* SpecInspecao: the values around every threshold
PesosInspecao == {Float(94), Float(95), Float(100), Float(105), Float(106), NaN}

CoresInspecao == {Azul, AZUL, Verde, Roxo, <<>>}

ComprimentosInspecao == {Float(9), Float(10), Float(20), Float(21), NaN}

\* SpecCaixas: every part registered is approved
EntradaAprovada == <<Float(100), Azul, Float(15)>>

\* SpecLote: the parts registered before the batch (approved; rejected)
EntradasAntesLote == {EntradaAprovada, <<Float(94), Roxo, Float(21)>>}

\* SpecLote: the header rows (the three names as the code reads them; in other
\* letter case and with spaces; in another order with one more column; one
\* name missing)
CabecalhoExato == <<<<"p","e","s","o">>, <<"c","o","r">>, <<"c","o","m","p","r","i","m","e","n","t","o">>>>

CabecalhoVariado == <<<<"P","E","S","O">>, <<" ","C","o","r"," ">>, <<"C","o","m","p","r","i","m","e","n","t","o">>>>

CabecalhoOutraOrdem == <<<<"c","o","r">>, <<"c","o","m","p","r","i","m","e","n","t","o">>, <<"i","d">>, <<"p","e","s","o">>>>

CabecalhoSemComprimento == <<<<"p","e","s","o">>, <<"c","o","r">>>>

Cabecalhos ==
    {CabecalhoExato, CabecalhoVariado, CabecalhoOutraOrdem, CabecalhoSemComprimento}

\* SpecLote: the records after the header
LinhaAprovada == <<<<" ","1","0","0"," ">>, <<"A","Z","U","L">>, <<"1","5">>>>

LinhaPesada == <<<<"2","0","0">>, <<"a","z","u","l">>, <<"1","5">>>>

LinhaRoxa == <<<<"1","0","0">>, <<"r","o","x","o">>, <<"1","5">>>>

LinhaPesoAbc == <<<<"a","b","c">>, <<"a","z","u","l">>, <<"1","5">>>>

LinhaComprimentoXyz == <<<<"1","0","0">>, <<"a","z","u","l">>, <<"x","y","z">>>>

LinhaCurta == <<<<"1","0","0">>, <<"a","z","u","l">>>>

LinhaEmBranco == <<>>

LinhaOutraOrdem == <<<<"v","e","r","d","e">>, <<"1","5">>, <<"7">>, <<"1","0","0">>>>

Linhas ==
    {LinhaAprovada, LinhaRoxa, LinhaPesoAbc, LinhaComprimentoXyz, LinhaCurta,
     LinhaEmBranco, LinhaOutraOrdem}

ArquivoCsv(cabecalho, linhas) ==
    [existe |-> TRUE, legivel |-> TRUE, registros |-> <<cabecalho>> \o linhas]

\* the three rows of one approved part and two rejected ones
ArquivoExemplo ==
    ArquivoCsv(CabecalhoExato, <<<<<<"1","0","0">>, <<"a","z","u","l">>, <<"1","5">>>>, LinhaPesada, LinhaRoxa>>)

\* a path that does not exist
ArquivoAusente == [existe |-> FALSE, legivel |-> FALSE, registros |-> <<>>]

\* a path that exists and cannot be opened
ArquivoIlegivel == [existe |-> TRUE, legivel |-> FALSE, registros |-> <<>>]

\* a file of no lines
ArquivoVazio == [existe |-> TRUE, legivel |-> TRUE, registros |-> <<>>]

Arquivos ==
    {ArquivoCsv(c, ls) : c \in Cabecalhos,
                         ls \in UNION {[1..n -> Linhas] : n \in 0..MaxLinhas}}
    \cup {ArquivoExemplo, ArquivoAusente, ArquivoIlegivel, ArquivoVazio}

-----------------------------------------------------------------------------
(* Specifications *)

\* The ledger under any interleaving of cadastrar_peca and remover_peca.
Next ==
    \/ \E e \in Entradas :
          /\ proximo_id <= MaxPecas
          /\ CadastrarPeca(e[1], e[2], e[3])
          /\ UNCHANGED lote
    \/ \E i \in 1..(MaxPecas + 1) : RemoverPeca(i) /\ UNCHANGED lote

Spec == Init /\ [][Next]_vars

\* The inspection of one part, over the values around every threshold.
NextInspecao ==
    \/ \E p \in PesosInspecao, c \in CoresInspecao, l \in ComprimentosInspecao :
          /\ proximo_id <= MaxPecasInspecao
          /\ CadastrarPeca(p, c, l)
          /\ UNCHANGED lote
    \/ \E i \in 1..(MaxPecasInspecao + 1) : RemoverPeca(i) /\ UNCHANGED lote

SpecInspecao == Init /\ [][NextInspecao]_vars

\* The boxes: a run of approved parts that fills a box and opens the next one,
\* with removals from both.
NextCaixas ==
    \/ /\ proximo_id <= MaxPecasCaixas
       /\ CadastrarPeca(EntradaAprovada[1], EntradaAprovada[2], EntradaAprovada[3])
       /\ UNCHANGED lote
    \/ \E i \in 1..MaxIdRemocao : RemoverPeca(i) /\ UNCHANGED lote

SpecCaixas == Init /\ [][NextCaixas]_vars

\* The numbering of the boxes: a run of approved parts long enough to fill two
\* boxes, with removals from the first box.
NextNumeracao ==
    \/ /\ proximo_id <= MaxPecasNumeracao
       /\ CadastrarPeca(EntradaAprovada[1], EntradaAprovada[2], EntradaAprovada[3])
       /\ UNCHANGED lote
    \/ \E i \in 1..MaxIdRemocaoNumeracao : RemoverPeca(i) /\ UNCHANGED lote

SpecNumeracao == Init /\ [][NextNumeracao]_vars

\* The percentage helper over small counts.
NextPercentual ==
    \E parte \in 0..MaxParte, total \in 0..MaxTotal :
        CalcularPercentual(parte, total) /\ UNCHANGED lote

SpecPercentual == Init /\ [][NextPercentual]_vars

\* One batch, after at most MaxPecasAntesLote registrations and any removal.
NextLote ==
    \/ \E e \in EntradasAntesLote :
          /\ lote = LoteInicial
          /\ proximo_id <= MaxPecasAntesLote
          /\ CadastrarPeca(e[1], e[2], e[3])
          /\ UNCHANGED lote
    \/ \E i \in 1..MaxPecasAntesLote :
          /\ lote = LoteInicial
          /\ RemoverPeca(i)
          /\ UNCHANGED lote
    \/ \E arquivo \in Arquivos :
          /\ lote = LoteInicial
          /\ ProcessarLoteCsv(arquivo)
    \/ ProcessarLinha
    \/ RetornarLote

SpecLote == Init /\ [][NextLote]_vars

-----------------------------------------------------------------------------
(* Claims *)

\* the part a call of cadastrar_peca has just returned
PecaRetornada == todas_pecas[Len(todas_pecas)]

\* lo <= x <= hi, as a statement about numbers: NaN lies in no interval
NoIntervalo(x, lo, hi) == ~x.nan /\ lo <= x.val /\ x.val <= hi

RegraPeso(p) == NoIntervalo(p.peso, 95, 105)

RegraCor(p) == Lower(p.cor) \in { <<"a","z","u","l">>, <<"v","e","r","d","e">> }

RegraComprimento(p) == NoIntervalo(p.comprimento, 10, 20)

\* C1: whenever cadastrar_peca has inspected a part built from w, c, l, the verdict
\* is "approved" if and only if 95 <= w <= 105, the lower-cased colour is azul or
\* verde, and 10 <= l <= 20.
C1_VeredictoConformeRegras ==
    ret.op = "cadastrar_peca" =>
        (ret.aprovada <=> ( /\ RegraPeso(PecaRetornada)
                            /\ RegraCor(PecaRetornada)
                            /\ RegraComprimento(PecaRetornada) ))

\* the categories of the reasons due to a part, in the order weight, colour, length
CategoriasDevidas(p) ==
    (IF RegraPeso(p) THEN <<>> ELSE <<"Peso fora do padrão">>)
    \o (IF RegraCor(p) THEN <<>> ELSE <<"Cor inválida">>)
    \o (IF RegraComprimento(p) THEN <<>> ELSE <<"Comprimento fora do padrão">>)

\* C2: the reason list of an inspected part holds exactly one reason per violated
\* rule, every violated rule is reported, in the order weight, colour, length.
C2_UmMotivoPorRegraViolada ==
    ret.op = "cadastrar_peca" =>
        LET motivos == PecaRetornada.motivos_reprovacao IN
        [i \in DOMAIN motivos |-> motivos[i].categoria] = CategoriasDevidas(PecaRetornada)

\* C3: the k-th call of cadastrar_peca assigns id k, whatever removals came in
\* between; the ids of the parts held increase strictly in registration order.
C3_IdsSequenciais ==
    /\ \A k \in DOMAIN historico_ids : historico_ids[k] = k
    /\ \A i, j \in DOMAIN todas_pecas : i < j => todas_pecas[i].id < todas_pecas[j].id

\* C3 witness: a part registered after an earlier part was removed
C3_CadastroAposRemocao ==
    /\ ret.op = "cadastrar_peca"
    /\ Len(historico_ids) >= 3
    /\ Len(todas_pecas) < Len(historico_ids)

\* C4: every box holds at most 10 parts and is closed if and only if it holds 10.
C4_FechadaSseCheia ==
    \A k \in DOMAIN caixas :
        /\ Len(caixas[k].pecas) <= 10
        /\ caixas[k].fechada <=> (Len(caixas[k].pecas) = 10)

\* C4 witness: ten parts registered, then one removed: the box that was closed
\* holds nine parts and is open
C4_CaixaReaberta ==
    /\ proximo_id = 11
    /\ Len(todas_pecas) = 9
    /\ ret = RetornoRemover(TRUE, "Peça removida com sucesso")
    /\ Len(caixas) = 1
    /\ Len(caixas[1].pecas) = 9

\* the ledger holds the first n parts registered, all approved, none removed
PrimeirasAprovadas(n) ==
    /\ proximo_id = n + 1
    /\ Len(todas_pecas) = n
    /\ \A i \in DOMAIN todas_pecas : todas_pecas[i].aprovada

\* C5: after 10 approved parts from the empty ledger there is exactly one box,
\* closed, holding the 10 parts in registration order; the 11th approved part
\* creates a second box, which is the current box and holds that part alone.
C5_DezPecasFechamCaixa ==
    /\ PrimeirasAprovadas(10) =>
          /\ Len(caixas) = 1
          /\ caixas[1].fechada
          /\ caixas[1].pecas = [i \in 1..10 |-> todas_pecas[i].id]
    /\ PrimeirasAprovadas(11) =>
          /\ Len(caixas) = 2
          /\ caixas[1].fechada
          /\ caixas[1].pecas = [i \in 1..10 |-> todas_pecas[i].id]
          /\ caixas[2].pecas = <<todas_pecas[11].id>>
          /\ caixa_atual = 2

\* C5 witness: eleven approved parts registered and none removed
C5_OnzeAprovadas == PrimeirasAprovadas(11) /\ ret.op = "cadastrar_peca"

\* C6: no two boxes of the box list have the same number.
C6_NumerosDeCaixaDistintos ==
    \A i, j \in DOMAIN caixas : i # j => caixas[i].numero # caixas[j].numero

\* a part with this id is in the master list
Cadastrada(i) == \E n \in DOMAIN todas_pecas : todas_pecas[n].id = i

\* the ids remover_peca is called with
IdsRemocao == 1..(MaxPecas + 1)

\* C7: remover_peca on an id that is not in the master list returns the failure
\* "not found" and changes no list, no box, not the current box, not the counter.
C7_RemocaoDeIdInexistente ==
    [][\A i \in IdsRemocao :
          (RemoverPeca(i) /\ ~Cadastrada(i)) =>
              /\ ret' = [op |-> "remover_peca", sucesso |-> FALSE,
                         mensagem |-> "Peça não encontrada", excecao |-> FALSE]
              /\ UNCHANGED ledger]_vars

\* C7 witness: a removal failed in a ledger that holds approved and rejected parts
\* and has lost a part before
C7_FalhaComPecasCadastradas ==
    /\ ret.op = "remover_peca"
    /\ ~ret.sucesso
    /\ Len(pecas_aprovadas) > 0
    /\ Len(pecas_reprovadas) > 0
    /\ Len(todas_pecas) < Len(historico_ids)

\* the elements of a list other than x, in the order of the list
Sem(lista, x) == SelectSeq(lista, LAMBDA y : y # x)

\* the boxes with the part i taken out of them; a box left without parts is gone
CaixasSem(cxs, i) ==
    SelectSeq([k \in DOMAIN cxs |-> [numero |-> cxs[k].numero, pecas |-> Sem(cxs[k].pecas, i)]],
              LAMBDA c : Len(c.pecas) > 0)

\* the number and the parts of every box
Conteudo(cxs) == [k \in DOMAIN cxs |-> [numero |-> cxs[k].numero, pecas |-> cxs[k].pecas]]

\* C8: remover_peca on an id of the master list succeeds; afterwards the part is in
\* no list and in no box, and every other part is in the lists and in the box it
\* was in, in the same order.
C8_RemocaoDePecaCadastrada ==
    [][\A i \in IdsRemocao :
          (RemoverPeca(i) /\ Cadastrada(i)) =>
              /\ ret' = [op |-> "remover_peca", sucesso |-> TRUE,
                         mensagem |-> "Peça removida com sucesso", excecao |-> FALSE]
              /\ todas_pecas' = SelectSeq(todas_pecas, LAMBDA p : p.id # i)
              /\ pecas_aprovadas' = Sem(pecas_aprovadas, i)
              /\ pecas_reprovadas' = Sem(pecas_reprovadas, i)
              /\ Conteudo(caixas') = CaixasSem(caixas, i)
              /\ ~Cadastrada(i)'
              /\ ~Contem(pecas_aprovadas', i)
              /\ ~Contem(pecas_reprovadas', i)
              /\ \A k \in DOMAIN caixas' : ~Contem(caixas'[k].pecas, i)]_vars

\* C8 witness: the first of several parts was removed; approved and rejected parts remain
C8_RemovidaAPrimeira ==
    /\ ret.op = "remover_peca"
    /\ ret.sucesso
    /\ Len(todas_pecas) >= 3
    /\ todas_pecas[1].id > 1
    /\ Len(pecas_aprovadas) >= 1
    /\ Len(pecas_reprovadas) >= 1

\* the ids remover_peca is called with in SpecCaixas
IdsRemocaoCaixas == 1..MaxIdRemocao

\* C9: removing a part that is in a closed box opens that box and takes exactly
\* that part out of it; the other parts of the box keep their order and the other
\* boxes are unchanged.
C9_RemocaoReabreCaixaFechada ==
    [][\A i \in IdsRemocaoCaixas : \A k \in DOMAIN caixas :
          (RemoverPeca(i) /\ Cadastrada(i) /\ caixas[k].fechada /\ Contem(caixas[k].pecas, i)) =>
              /\ Len(caixas') = Len(caixas)
              /\ caixas'[k].fechada = FALSE
              /\ caixas'[k].numero = caixas[k].numero
              /\ Len(caixas'[k].pecas) = Len(caixas[k].pecas) - 1
              /\ caixas'[k].pecas = Sem(caixas[k].pecas, i)
              /\ \A j \in DOMAIN caixas : j # k => caixas'[j] = caixas[j]]_vars

\* C9 witness: the first box was closed, a second box exists, and a part has just
\* left the first box
C9_PrimeiraCaixaReaberta ==
    /\ proximo_id = 12
    /\ Len(todas_pecas) = 10
    /\ ret = RetornoRemover(TRUE, "Peça removida com sucesso")
    /\ Len(caixas) = 2
    /\ Len(caixas[1].pecas) = 9
    /\ ~caixas[1].fechada

\* C10: when remover_peca removes the only part of a box, the box leaves the box
\* list; if it was the current box, the current box becomes the last box of the
\* list, or None when the list is empty; otherwise the current box stays the same box.
C10_CaixaVaziaExcluida ==
    [][\A i \in IdsRemocaoCaixas : \A k \in DOMAIN caixas :
          (RemoverPeca(i) /\ Cadastrada(i) /\ caixas[k].pecas = <<i>>) =>
              /\ caixas' = RemoveAt(caixas, k)
              /\ caixa_atual = k =>
                    caixa_atual' = IF Len(caixas') = 0 THEN None ELSE Len(caixas')
              /\ caixa_atual # k =>
                    /\ caixa_atual' \in DOMAIN caixas'
                    /\ caixas'[caixa_atual'] = caixas[caixa_atual]]_vars

\* C10 witness: the first box lost its ten parts while the second box, the current
\* one, held the eleventh part: the list holds the box numbered 2 alone
C10_PrimeiraCaixaExcluida ==
    /\ proximo_id = 12
    /\ Len(todas_pecas) = 1
    /\ ret = RetornoRemover(TRUE, "Peça removida com sucesso")
    /\ Len(caixas) = 1
    /\ caixas[1].numero = 2
    /\ caixa_atual = 1

\* the ids of the parts of the master list
IdsCadastrados == {todas_pecas[n].id : n \in DOMAIN todas_pecas}

\* the number of positions of a list that hold x
Ocorrencias(lista, x) == Cardinality({n \in DOMAIN lista : lista[n] = x})

\* C11: every part of the master list is in exactly one of the approved list and
\* the rejected list, and these two lists hold no part that is not in the master list.
C11_AprovadaOuReprovada ==
    /\ \A i \in IdsCadastrados :
          Ocorrencias(pecas_aprovadas, i) + Ocorrencias(pecas_reprovadas, i) = 1
    /\ \A n \in DOMAIN pecas_aprovadas : pecas_aprovadas[n] \in IdsCadastrados
    /\ \A n \in DOMAIN pecas_reprovadas : pecas_reprovadas[n] \in IdsCadastrados

\* C11 witness: approved and rejected parts are held after a removal of each kind
C11_AmbasAsListasAposRemocoes ==
    /\ Len(pecas_aprovadas) >= 2
    /\ Len(pecas_reprovadas) >= 2
    /\ Len(todas_pecas) + 2 <= Len(historico_ids)
    /\ ret.op = "remover_peca"
    /\ ret.sucesso

\* the distance between two integers
Distancia(a, b) == IF a >= b THEN a - b ELSE b - a

\* C16: _calcular_percentual returns 0 whenever total = 0; for total > 0 it returns
\* parte / total * 100 rounded to one decimal place (the value returned is within
\* half a tenth of the quotient); so percentage(0, 0) = 0 and percentage(3, 10) = 30.0.
C16_PercentualArredondado ==
    ret.op = "_calcular_percentual" =>
        /\ ret.total = 0 => ret.decimos = 0
        /\ ret.total > 0 =>
              2 * Distancia(ret.decimos * ret.total, ret.parte * 1000) <= ret.total
        /\ (ret.parte = 0 /\ ret.total = 0) => ret.decimos = 0
        /\ (ret.parte = 3 /\ ret.total = 10) => ret.decimos = 300

\* C16 witness: 2 of 3 is 66.7 per cent: the second decimal was rounded away
C16_DoisTercos ==
    /\ ret.op = "_calcular_percentual"
    /\ ret.parte = 2
    /\ ret.total = 3
    /\ ret.decimos = 667

\* the positions of the boxes whose number is the box reference of the part
CaixasPelaReferencia(p) == {k \in DOMAIN caixas : caixas[k].numero = p.caixa}

\* the positions of the boxes that hold the part
CaixasPelaBusca(p) == {k \in DOMAIN caixas : Contem(caixas[k].pecas, p.id)}

\* C17: for every approved part, the box found by its box reference (the box with
\* that number) and the box found by scanning the boxes for the part are the same
\* single box.
C17_ReferenciaEBuscaConcordam ==
    \A n \in DOMAIN todas_pecas :
        todas_pecas[n].aprovada =>
            /\ Cardinality(CaixasPelaReferencia(todas_pecas[n])) = 1
            /\ CaixasPelaReferencia(todas_pecas[n]) = CaixasPelaBusca(todas_pecas[n])

\* C18: registering a part that fails the inspection appends it to the master list
\* and to the rejected list and changes nothing else: not the approved list, not a
\* box, not the current box.  A rejected part has no box reference, is in no box and
\* has at least one reason; an approved part has no reason.
C18_ReprovadaNaoVaiParaCaixa ==
    [][/\ \A e \in Entradas :
             (CadastrarPeca(e[1], e[2], e[3]) /\ ~ret'.aprovada) =>
                 /\ Len(todas_pecas') = Len(todas_pecas) + 1
                 /\ SubSeq(todas_pecas', 1, Len(todas_pecas)) = todas_pecas
                 /\ todas_pecas'[Len(todas_pecas')].id = ret'.peca
                 /\ pecas_reprovadas' = Append(pecas_reprovadas, ret'.peca)
                 /\ UNCHANGED <<pecas_aprovadas, caixas, caixa_atual>>
       /\ \A n \in DOMAIN todas_pecas' :
             /\ todas_pecas'[n].aprovada =>
                   Len(todas_pecas'[n].motivos_reprovacao) = 0
             /\ ~todas_pecas'[n].aprovada =>
                   /\ Len(todas_pecas'[n].motivos_reprovacao) > 0
                   /\ todas_pecas'[n].caixa = None
                   /\ \A k \in DOMAIN caixas' :
                         ~Contem(caixas'[k].pecas, todas_pecas'[n].id)]_vars

\* C18 witness: a part was rejected in a ledger that holds a box with approved parts
C18_ReprovadaComCaixaAberta ==
    /\ ret.op = "cadastrar_peca"
    /\ ~ret.aprovada
    /\ Len(caixas) = 1
    /\ Len(pecas_aprovadas) >= 2
    /\ Len(pecas_reprovadas) >= 2

\* the ids of the parts of one box
IdsDaCaixa(caixa) == {caixa.pecas[m] : m \in DOMAIN caixa.pecas}

\* the ids of the parts held by the boxes of a box list
IdsEmCaixas(cxs) == UNION {IdsDaCaixa(cxs[k]) : k \in DOMAIN cxs}

\* C20: the current box is None exactly when the box list is empty, and otherwise
\* it is the last box of the list; a part that enters a box enters the last box, and
\* a box that is not the last one gains no part, reopened or not.
C20_CaixaAtualEAUltima ==
    [][/\ (caixa_atual' = None) <=> (Len(caixas') = 0)
       /\ Len(caixas') > 0 => caixa_atual' = Len(caixas')
       /\ \A j \in DOMAIN caixas' :
             (IdsDaCaixa(caixas'[j]) \ IdsEmCaixas(caixas)) # {} => j = Len(caixas')
       /\ \A k \in DOMAIN caixas : \A j \in DOMAIN caixas' :
             (k < Len(caixas) /\ (IdsDaCaixa(caixas[k]) \cap IdsDaCaixa(caixas'[j])) # {}) =>
                 IdsDaCaixa(caixas'[j]) \subseteq IdsDaCaixa(caixas[k])]_vars

\* C20 witness: the first box was reopened by a removal and the part registered
\* next went to the second box
C20_CadastroComPrimeiraCaixaReaberta ==
    /\ ret.op = "cadastrar_peca"
    /\ proximo_id = 13
    /\ Len(caixas) = 2
    /\ Len(caixas[1].pecas) = 9
    /\ Len(caixas[2].pecas) = 2
    /\ caixa_atual = 2

\* the data rows of a file: the positions of its records after the header (a
\* blank line is no record)
LinhasDeDados(arquivo) ==
    {i \in 2..Len(arquivo.registros) : arquivo.registros[i] # <<>>}

\* the number of the row at position i: the k-th data row is row k + 1
NumeroDaLinha(arquivo, i) == 1 + Cardinality({j \in LinhasDeDados(arquivo) : j <= i})

\* the columns of a header row whose name is nome in any letter case and with
\* surrounding spaces
ColunasDe(cabecalho, nome) == {i \in DOMAIN cabecalho : Lower(Strip(cabecalho[i])) = nome}

NomesExigidos == {<<"p","e","s","o">>, <<"c","o","r">>, <<"c","o","m","p","r","i","m","e","n","t","o">>}

\* the file opens and its header row has the three required names
CabecalhoCompleto(arquivo) ==
    /\ arquivo.existe
    /\ arquivo.legivel
    /\ arquivo.registros # <<>>
    /\ \A nome \in NomesExigidos : ColunasDe(arquivo.registros[1], nome) # {}

\* the call went into the loop over the rows
LoteAceito == lote.lidos >= 1

\* the call has returned
LoteRetornado == ~lote.ativo /\ ret.op = "processar_lote_csv"

\* C13: a batch whose file does not exist, or whose header row lacks one of the
\* three required names, returns three zero counts and exactly one error, and
\* the call is over with the ledger as it was.
C13_LoteRecusadoSemCadastro ==
    [][(/\ ProcessarLoteCsv(lote'.arquivo)
        /\ (~lote'.arquivo.existe \/ ~CabecalhoCompleto(lote'.arquivo)))
          => /\ ret'.op = "processar_lote_csv"
             /\ ret'.total_processadas = 0
             /\ ret'.aprovadas = 0
             /\ ret'.reprovadas = 0
             /\ Len(ret'.erros) = 1
             /\ ~lote'.ativo
             /\ UNCHANGED <<ledger, historico_ids>>]_vars

\* C13 witness: a file without the length column, holding a good row, was
\* refused by a ledger that holds a part.
C13_RecusadoComLinhaBoa ==
    /\ LoteRetornado
    /\ lote.arquivo = ArquivoCsv(CabecalhoSemComprimento, <<LinhaAprovada>>)
    /\ Len(ret.erros) = 1
    /\ Len(todas_pecas) = 1

\* C12: once a batch is in its loop, total_processadas is the number of calls of
\* cadastrar_peca the batch made, aprovadas + reprovadas is total_processadas,
\* total_processadas plus the number of row errors is the number of data rows
\* taken so far, the errors name rows in increasing order, and the call
\* returns these counts only when every data row was taken.
C12_ContagemDoLote ==
    LoteAceito =>
        /\ lote.total_processadas = Len(historico_ids) - lote.cadastros_antes
        /\ lote.aprovadas + lote.reprovadas = lote.total_processadas
        /\ lote.total_processadas + Len(lote.erros)
               = Cardinality({i \in LinhasDeDados(lote.arquivo) : i <= lote.lidos})
        /\ \A m, n \in DOMAIN lote.erros :
               m < n => lote.erros[m].linha < lote.erros[n].linha
        /\ \A m \in DOMAIN lote.erros : lote.erros[m].linha # None
        /\ ~lote.ativo =>
               /\ ret = RetornoLote(lote.total_processadas, lote.aprovadas,
                                    lote.reprovadas, lote.erros)
               /\ \A i \in LinhasDeDados(lote.arquivo) : i <= lote.lidos

\* C12 witness: a batch returned after a row error followed by a rejected part.
C12_ErroSeguidoDeReprovada ==
    /\ LoteRetornado
    /\ LoteAceito
    /\ Len(lote.erros) = 1
    /\ lote.erros[1].linha = 2
    /\ ret.total_processadas = 1
    /\ ret.reprovadas = 1
    /\ Cardinality(LinhasDeDados(lote.arquivo)) = 2

\* the texts of the files that are numerals, and the number each one is
TextosNumericos ==
    { <<<<" ","1","0","0"," ">>, 100>>, <<<<"1","0","0">>, 100>>, <<<<"2","0","0">>, 200>>, <<<<"1","5">>, 15>>, <<<<"7">>, 7>> }

EhNumerico(texto) == \E t \in TextosNumericos : t[1] = texto

ValorNumerico(texto) == (CHOOSE t \in TextosNumericos : t[1] = texto)[2]

\* the row has a cell under the column nome
TemCelula(cabecalho, linha, nome) ==
    \E i \in ColunasDe(cabecalho, nome) : i <= Len(linha)

\* the cell of the row under the column nome
Celula(cabecalho, linha, nome) ==
    linha[CHOOSE i \in ColunasDe(cabecalho, nome) : i <= Len(linha)]

\* a well-formed data row: a cell under each required column, those of the
\* weight and of the length being numerals
LinhaBemFormada(cabecalho, linha) ==
    /\ \A nome \in NomesExigidos : TemCelula(cabecalho, linha, nome)
    /\ EhNumerico(Celula(cabecalho, linha, <<"p","e","s","o">>))
    /\ EhNumerico(Celula(cabecalho, linha, <<"c","o","m","p","r","i","m","e","n","t","o">>))

LinhasBemFormadas(arquivo) ==
    {i \in LinhasDeDados(arquivo) : LinhaBemFormada(arquivo.registros[1], arquivo.registros[i])}

\* C14: a batch whose header row has the three required names in any letter
\* case or with surrounding spaces goes into the loop, and when it returns
\* every well-formed data row was counted in total_processadas and no error
\* names such a row.
C14_CabecalhoEmQualquerCaixa ==
    (~lote.ativo /\ lote # LoteInicial /\ CabecalhoCompleto(lote.arquivo)) =>
        /\ LoteAceito
        /\ ret.op = "processar_lote_csv"
        /\ ret.total_processadas = Cardinality(LinhasBemFormadas(lote.arquivo))
        /\ \A i \in LinhasBemFormadas(lote.arquivo) :
               \A m \in DOMAIN ret.erros :
                   ret.erros[m].linha # NumeroDaLinha(lote.arquivo, i)

\* a data row whose weight or length is not a numeral
LinhaNaoNumerica(cabecalho, linha) ==
    \E nome \in {<<"p","e","s","o">>, <<"c","o","m","p","r","i","m","e","n","t","o">>} :
        /\ TemCelula(cabecalho, linha, nome)
        /\ ~EhNumerico(Celula(cabecalho, linha, nome))

\* C15: the iteration that takes a data row whose weight or length is not a
\* numeral adds exactly one error, which names row k + 1 when the row is the
\* k-th data row, and leaves the ledger, the counters and the call in progress
\* as they were, so that the later rows start from what they would start from
\* without the row.
C15_LinhaNaoNumericaIsolada ==
    [][(/\ ProcessarLinha
        /\ LinhaNaoNumerica(lote.arquivo.registros[1],
                            lote.arquivo.registros[ProximoRegistro(lote)]))
       => /\ Len(lote'.erros) = Len(lote.erros) + 1
          /\ SubSeq(lote'.erros, 1, Len(lote.erros)) = lote.erros
          /\ lote'.erros[Len(lote'.erros)].linha
                 = NumeroDaLinha(lote.arquivo, ProximoRegistro(lote))
          /\ lote'.total_processadas = lote.total_processadas
          /\ lote'.aprovadas = lote.aprovadas
          /\ lote'.reprovadas = lote.reprovadas
          /\ lote'.ativo
          /\ UNCHANGED <<ledger, historico_ids>>]_vars

\* C15 witness: a batch of a row of weight abc and a good row returned one
\* error for row 2 and one approved part.
C15_AbcSeguidaDeAprovada ==
    /\ LoteRetornado
    /\ lote.arquivo = ArquivoCsv(CabecalhoExato, <<LinhaPesoAbc, LinhaAprovada>>)
    /\ Len(ret.erros) = 1
    /\ ret.erros[1].linha = 2
    /\ ret.total_processadas = 1
    /\ ret.aprovadas = 1
    /\ Len(pecas_aprovadas) >= 1

\* C19: each iteration of an accepted batch that takes a well-formed data row
\* changes the ledger as cadastrar_peca of the row's weight, colour and length
\* does and adds one to aprovadas or to reprovadas as that call returned;
\* an iteration that takes another row leaves the ledger as it was; and the
\* file of the rows 100,azul,15 200,azul,15 100,roxo,15 returns 3, 1, 2 and
\* no errors.
C19_LoteComoCadastros ==
    [][/\ ProcessarLinha =>
            LET cabecalho == lote.arquivo.registros[1]
                linha == lote.arquivo.registros[ProximoRegistro(lote)]
            IN  IF LinhaBemFormada(cabecalho, linha)
                THEN /\ CadastrarPeca(Float(ValorNumerico(Celula(cabecalho, linha, <<"p","e","s","o">>))),
                                      Strip(Celula(cabecalho, linha, <<"c","o","r">>)),
                                      Float(ValorNumerico(Celula(cabecalho, linha, <<"c","o","m","p","r","i","m","e","n","t","o">>))))
                     /\ lote'.aprovadas = lote.aprovadas + (IF ret'.aprovada THEN 1 ELSE 0)
                     /\ lote'.reprovadas = lote.reprovadas + (IF ret'.aprovada THEN 0 ELSE 1)
                ELSE UNCHANGED <<ledger, historico_ids>>
       /\ (RetornarLote /\ lote.arquivo = ArquivoExemplo)
              => ret' = RetornoLote(3, 1, 2, <<>>)]_vars

\* the parts of the boxes of a box list, box after box
RECURSIVE PecasEmOrdem(_)
PecasEmOrdem(cxs) ==
    IF cxs = <<>> THEN <<>> ELSE cxs[1].pecas \o PecasEmOrdem(Tail(cxs))

\* C21: no box of the box list is empty, every approved part is in exactly one
\* box and exactly once, and the parts of the boxes, box after box, are the
\* approved list, whose ids are strictly increasing.
C21_CaixasSaoAListaDeAprovadas ==
    /\ \A k \in DOMAIN caixas : caixas[k].pecas # <<>>
    /\ \A n \in DOMAIN pecas_aprovadas :
          /\ Cardinality({k \in DOMAIN caixas :
                             Contem(caixas[k].pecas, pecas_aprovadas[n])}) = 1
          /\ Ocorrencias(PecasEmOrdem(caixas), pecas_aprovadas[n]) = 1
    /\ PecasEmOrdem(caixas) = pecas_aprovadas
    /\ \A m, n \in DOMAIN pecas_aprovadas :
          m < n => pecas_aprovadas[m] < pecas_aprovadas[n]

\* C21 witness: the first box was filled and lost a part, and parts registered
\* afterwards are in the second box.
C21_SegundaCaixaAposPrimeiraReaberta ==
    /\ Len(caixas) = 2
    /\ Len(caixas[1].pecas) = CAPACIDADE_MAXIMA - 1
    /\ ~caixas[1].fechada
    /\ Len(caixas[2].pecas) = 2
    /\ ret.op = "cadastrar_peca"
    /\ Len(pecas_aprovadas) = CAPACIDADE_MAXIMA + 1

=============================================================================
